---- MODULE Spec2Model ----
(***************************************************************************)
(* node-foundationdb: the native Transaction / Watch binding               *)
(* (src/src/Transaction.cpp) and the asynchronous completion bridge it     *)
(* drives.  The bridge itself (NodeCallback.h, future.h) is not among the  *)
(* sources; its steps are modelled from spec.md section 4.2 and are marked *)
(* as such where they are defined.                                         *)
(***************************************************************************)
EXTENDS Integers, Sequences, FiniteSets, TLC

\* ------------------------------------------------------------------ bounds
MaxOps == 1
MaxTxns == 1
MaxCancels == 2

MaxValueLen == 2    \* longest byte sequence written as a value
MaxCalls == 3       \* host calls on the one handle the dispatcher view follows
MaxNetOptions == 2  \* network options set over a behaviour
MaxDatabases == 2   \* databases opened over a behaviour

Ops == 1..MaxOps
Txns == 1..MaxTxns

\* ------------------------------------------------------- native error codes
\* fdb_error_t: 0 is success, every other code is an error.
NoError == 0
\* the two "canceled" indications of the native client
TransactionCancelled == 1025
OperationCancelled == 1101
\* some other store error (not_committed)
StoreError == 1020

IsCanceled(e) == e \in {TransactionCancelled, OperationCancelled}

\* --------------------------------------------------------------- host values
Undefined == [type |-> "undefined"]
Null == [type |-> "null"]
Buffer(bytes) == [type |-> "buffer", bytes |-> bytes]
JsString(s) == [type |-> "string", str |-> s]
JsNumber(n) == [type |-> "number", num |-> n]
JsArray(items) == [type |-> "array", items |-> items]
JsKeyValue(k, v) == [type |-> "object", key |-> Buffer(k), value |-> Buffer(v)]
JsRange(values, more) == [type |-> "object", values |-> JsArray(values), more |-> more]

\* ----------------------------------------------------------- decode functions
\* Each takes the native future (its error code and its payload) and yields
\* the error it wrote to *errOut and the host value it returned.
ignoreResult(future) ==
  [err |-> future.err, value |-> Undefined]

\* slip: the value is built without looking at the error code
getValue_DecodesOnError(future) ==
  [err |-> future.err,
   value |-> IF future.payload.present
               THEN Buffer(future.payload.bytes)
               ELSE Null]

\* slip: the presence flag is not looked at
getValue_AbsentAsEmpty(future) ==
  IF future.err # NoError
    THEN [err |-> future.err, value |-> Undefined]
    ELSE [err |-> NoError, value |-> Buffer(future.payload.bytes)]

getValue(future) ==
  IF future.err # NoError
    THEN [err |-> future.err, value |-> Undefined]
    ELSE [err |-> NoError,
          value |-> IF future.payload.present
                      THEN Buffer(future.payload.bytes)
                      ELSE Null]

getKey(future) ==
  IF future.err # NoError
    THEN [err |-> future.err, value |-> Undefined]
    ELSE [err |-> NoError, value |-> Buffer(future.payload.bytes)]

\* slip: the more flag of the store is not passed on
getKeyValueList_MoreFalse(future) ==
  IF future.err # NoError
    THEN [err |-> future.err, value |-> Undefined]
    ELSE [err |-> NoError,
          value |-> JsRange([i \in 1..Len(future.payload.kv) |->
                               JsKeyValue(future.payload.kv[i].key,
                                          future.payload.kv[i].value)],
                            FALSE)]

getKeyValueList(future) ==
  IF future.err # NoError
    THEN [err |-> future.err, value |-> Undefined]
    ELSE [err |-> NoError,
          value |-> JsRange([i \in 1..Len(future.payload.kv) |->
                               JsKeyValue(future.payload.kv[i].key,
                                          future.payload.kv[i].value)],
                            future.payload.more)]

getStringArray(future) ==
  IF future.err # NoError
    THEN [err |-> future.err, value |-> Undefined]
    ELSE [err |-> NoError,
          value |-> JsArray([i \in 1..Len(future.payload.strings) |->
                               JsString(future.payload.strings[i])])]

getVersion(future) ==
  IF future.err # NoError
    THEN [err |-> future.err, value |-> Undefined]
    ELSE [err |-> NoError, value |-> JsNumber(future.payload.version)]

\* slip: outErr is never written, the caller reads whatever code was there
extractValue_Uninit(future) ==
  [err |-> StoreError, value |-> Undefined]

\* NodeVoidCallback::extractValue, the watch's decode
extractValue(future) ==
  [err |-> future.err, value |-> Undefined]

DecodeTags ==
  {"ignoreResult", "getValue", "getKey", "getKeyValueList",
   "getStringArray", "getVersion", "extractValue"}

\* The call through the decode function pointer held by a pending operation.
Decode(tag, future) ==
  CASE tag = "ignoreResult" -> ignoreResult(future)
    [] tag = "getValue" -> getValue(future)
    [] tag = "getKey" -> getKey(future)
    [] tag = "getKeyValueList" -> getKeyValueList(future)
    [] tag = "getStringArray" -> getStringArray(future)
    [] tag = "getVersion" -> getVersion(future)
    [] tag = "extractValue" -> extractValue(future)

\* What the native client may hold in a completed future, per result shape.
NoPayload == [shape |-> "void"]
Payloads(tag) ==
  CASE tag = "getValue" ->
         {[shape |-> "value", present |-> FALSE, bytes |-> <<>>],
          [shape |-> "value", present |-> TRUE, bytes |-> <<>>]}
    [] tag = "getKey" -> {[shape |-> "key", bytes |-> <<1>>]}
    [] tag = "getKeyValueList" ->
         {[shape |-> "kvs", kv |-> <<[key |-> <<1>>, value |-> <<0>>]>>,
           more |-> TRUE]}
    [] tag = "getStringArray" -> {[shape |-> "strings", strings |-> <<"a">>]}
    [] tag = "getVersion" -> {[shape |-> "version", version |-> 1]}
    [] OTHER -> {NoPayload}


\* ------------------------------------------------------------ value marshaler
\* A host string is a sequence of code points; String::Utf8Length and
\* String::WriteUtf8 give its UTF-8 form (one byte below 128, two below 2048,
\* three otherwise; no code point above 65535 is used here).
Utf8(cp) ==
  IF cp < 128 THEN <<cp>>
  ELSE IF cp < 2048 THEN <<192 + (cp \div 64), 128 + (cp % 64)>>
  ELSE <<224 + (cp \div 4096), 128 + ((cp \div 64) % 64), 128 + (cp % 64)>>

RECURSIVE WriteUtf8(_)
WriteUtf8(s) == IF s = <<>> THEN <<>> ELSE Utf8(Head(s)) \o WriteUtf8(Tail(s))

Utf8Length(s) == Len(WriteUtf8(s))

\* slip: the length is taken up to the first zero byte
StringParams_CString(keyVal) ==
  LET bytes == IF keyVal.type = "string" THEN WriteUtf8(keyVal.str) ELSE keyVal.bytes
      zeros == {i \in 1..Len(bytes) : bytes[i] = 0}
  IN [owned |-> keyVal.type = "string", str |-> bytes,
      len |-> IF zeros = {}
                THEN Len(bytes)
                ELSE (CHOOSE i \in zeros : \A j \in zeros : i <= j) - 1]

\* StringParams(keyVal), for a string or a Buffer: the (str, len) view the
\* native call is given, and whether the destructor frees it.
StringParams(keyVal) ==
  IF keyVal.type = "string"
    THEN [owned |-> TRUE, str |-> WriteUtf8(keyVal.str),
          len |-> Utf8Length(keyVal.str)]
    ELSE [owned |-> FALSE, str |-> keyVal.bytes, len |-> Len(keyVal.bytes)]

\* The bytes a native call reads through a (str, len) argument pair.
NativeBytes(str, len) == SubSeq(str, 1, len)

\* The keys and values the application uses.
Bytes == {0, 1}
ByteSeqs == UNION {[1..n -> Bytes] : n \in 0..MaxValueLen}
HostKeys == {Buffer(<<1>>), JsString(<<233>>)}
HostValues == {Buffer(b) : b \in ByteSeqs} \cup {JsString(<<>>), JsString(<<0, 233>>)}

\* ------------------------------------------- the store, inside one transaction
\* The native client's view of the database for one transaction: a value, or
\* none, per key (read-your-writes).
Absent == [present |-> FALSE, bytes |-> <<>>]
NativeKeys ==
  {NativeBytes(StringParams(k).str, StringParams(k).len) : k \in HostKeys}

\* fdb_transaction_set / fdb_transaction_clear on the store.
NativeSet(store, key, value) ==
  [store EXCEPT ![key] = [present |-> TRUE, bytes |-> value]]

NativeClear(store, key) == [store EXCEPT ![key] = Absent]

\* The payload of the future of fdb_transaction_get.
NativeGet(store, key) ==
  [shape |-> "value", present |-> store[key].present, bytes |-> store[key].bytes]

RECURSIVE BytesLess(_, _)
BytesLess(a, b) ==
  IF b = <<>> THEN FALSE
  ELSE IF a = <<>> THEN TRUE
  ELSE IF Head(a) # Head(b) THEN Head(a) < Head(b)
  ELSE BytesLess(Tail(a), Tail(b))

\* The keys of a set in the store's (bytewise) order.
SortedKeys(S) ==
  CHOOSE seq \in [1..Cardinality(S) -> S] :
    \A i, j \in 1..Cardinality(S) : i < j => BytesLess(seq[i], seq[j])

\* Where a range read begins: at the first key, or just after a given key.
FromStart == [first |-> TRUE, key |-> <<>>]
After(key) == [first |-> FALSE, key |-> key]

\* The pairs of the store from `begin` on, in key order.
PairsAfter(store, begin) ==
  LET keys == {k \in NativeKeys :
                 store[k].present /\ (begin.first \/ BytesLess(begin.key, k))}
      sorted == SortedKeys(keys)
  IN [i \in 1..Len(sorted) |-> [key |-> sorted[i], value |-> store[sorted[i]].bytes]]

\* The payload of the future of fdb_transaction_get_range with limit 0 and
\* target_bytes 0: a batch of the store's choosing, and whether pairs remain.
NativeGetRange(store, begin, size) ==
  [shape |-> "kvs", kv |-> SubSeq(PairsAfter(store, begin), 1, size),
   more |-> size < Len(PairsAfter(store, begin))]

\* ---------------------------------------------------------------------- state
VARIABLES
  txns,       \* Transaction wrappers and the native pointer each one holds
  ops,        \* pending operations: native future + callback object + Watch handle
  nOps,       \* how many asynchronous verbs have been issued
  badPtrUse,  \* a native entry point was handed a pointer the library never gave out
  disp,       \* the dispatcher seen call by call: native calls made, what the host got back
  data,       \* the store as one transaction sees it, and what get / getRange delivered
  net         \* lib/index.ts: API version, initCalled, network thread, databases

vars == <<txns, ops, nOps, badPtrUse>>

\* The state of the other views of the program, which the steps of one view
\* leave alone.
bridgeVars == vars
dispVars == <<disp>>
dataVars == <<data>>
netVars == <<net>>

NoTxn == [wrapper |-> "none", tr |-> "uninit", destroys |-> 0, cancelled |-> FALSE]

NoResult == [err |-> -1, value |-> Undefined]

NoOp ==
  [verb |-> "none", decode |-> "none", txn |-> 0,
   fut |-> "none", err |-> NoError, cancelReq |-> FALSE, cancelIssued |-> FALSE,
   started |-> FALSE, queued |-> 0, refCount |-> 0,
   watch |-> "none", cancelCalls |-> 0,
   contCount |-> 0, result |-> NoResult, destroys |-> 0, fault |-> FALSE,
   decodedOn |-> "none", refsAtStart |-> 0]

\* The dispatcher as the host sees it, one call after another on one handle.
\* phase is the state the native transaction was put in by the calls that
\* were forwarded (the handle stores none); nativeLog holds, in the order the
\* native client was entered, the number of the host call that entered it;
\* pending are the futures not yet settled, settled the order they were.
NoCall ==
  [verb |-> "none", shape |-> "none", phase |-> "Active", callable |-> FALSE,
   native |-> "none", decode |-> "none", nativeErr |-> NoError,
   threw |-> "none", threwCode |-> NoError, ret |-> "none",
   deferred |-> FALSE, fault |-> FALSE, params |-> <<>>]

NoSettle == [call |-> 0, verb |-> "none", nativeErr |-> NoError, result |-> NoResult]

DispStart ==
  [phase |-> "Active", nCalls |-> 0, crashed |-> FALSE, nativeLog |-> <<>>,
   pending |-> <<>>, settled |-> <<>>, last |-> NoCall, lastSettle |-> NoSettle]

\* One transaction's data as its application sees it.  written is the host
\* value last given to set for a key (Never or Cleared otherwise); inflight
\* the one read not yet delivered (the application awaits it before its next
\* call); lastGet what a get delivered and what its key held, until the next
\* write; gotEmpty that some get delivered an empty byte sequence; scan the
\* getRange scan in progress or last finished: the pairs the store returned
\* and the pairs delivered so far.
Never == [type |-> "never"]
Cleared == [type |-> "cleared"]
NoFlight == [verb |-> "none"]
NoGet == [key |-> Undefined, expect |-> Never, result |-> NoResult]
NoScan ==
  [active |-> FALSE, n |-> 0, iteration |-> 0, returned |-> <<>>,
   delivered |-> <<>>, storeMore |-> FALSE, more |-> FALSE]

DataStart ==
  [store |-> [k \in NativeKeys |-> Absent],
   written |-> [k \in HostKeys |-> Never],
   inflight |-> NoFlight, lastGet |-> NoGet, gotEmpty |-> FALSE,
   scan |-> NoScan]

\* lib/index.ts as the module is loaded: no API version chosen, initCalled
\* false, no network thread, no exit handler, no option set, no database.
\* last is the outcome of the latest exported call; openThrew remembers that
\* some open() has thrown; exited that the process has emitted 'exit'.
NoNetCall == [call |-> "none", threw |-> FALSE]

NetStart ==
  [apiVersion |-> Null, initCalled |-> FALSE, networkStarts |-> 0,
   exitHandlers |-> 0, optionsSet |-> 0, optionsSetAfterStart |-> 0,
   databases |-> 0, dbCreatedUnstarted |-> FALSE, openThrew |-> FALSE,
   exited |-> FALSE, networkStops |-> 0, last |-> NoNetCall]

Init ==
  /\ txns = [t \in Txns |-> NoTxn]
  /\ ops = [o \in Ops |-> NoOp]
  /\ nOps = 0
  /\ badPtrUse = FALSE
  /\ disp = DispStart
  /\ data = DataStart
  /\ net = NetStart

\* ------------------------------------------------- native client (external ABI)
\* fdb_transaction_get / _commit / _watch / ...: a fresh future, not yet ready.
NewFuture(t, verb) ==
  [NoOp EXCEPT !.verb = verb, !.txn = t, !.fut = "pending"]

\* fdb_future_cancel: a pending future is asked to stop; a ready one ignores it;
\* a destroyed (or null) one is a fault.
NativeCancel(op) ==
  IF op.fut = "pending"
    THEN [op EXCEPT !.cancelReq = TRUE, !.cancelIssued = TRUE]
    ELSE IF op.fut = "ready"
           THEN [op EXCEPT !.cancelIssued = TRUE]
           ELSE [op EXCEPT !.fault = TRUE]

\* The error codes a pending future may become ready with.  A completion that
\* raced ahead of a cancellation is a normal one; a watch resolves when its key
\* changes or is canceled (spec 4.3).
Outcomes(op) ==
  {NoError}
    \cup (IF op.verb # "watch" THEN {StoreError} ELSE {})
    \cup (IF op.cancelReq THEN {OperationCancelled} ELSE {})
    \cup (IF txns[op.txn].cancelled \/ txns[op.txn].tr = "destroyed"
            THEN {TransactionCancelled} ELSE {})

\* --------------------------------- completion bridge (NodeCallback, futureToJS)
\* A pending operation starts with the one reference that keeps it alive
\* until the hand-off to the host has completed.
NewNodeCallback(future, decode) ==
  [future EXCEPT !.decode = decode, !.refCount = 1]

\* start(): register the completion callback with the native future.
\* refsAtStart remembers how many references the callback had at that moment.
Start(op) == [op EXCEPT !.started = TRUE, !.refsAtStart = op.refCount]

AddRef(op) == [op EXCEPT !.refCount = @ + 1]

\* delRef(): the last reference deletes the callback object, which destroys a
\* future it still holds.
DelRef(op) ==
  IF op.refCount <= 0
    THEN [op EXCEPT !.refCount = @ - 1, !.fault = TRUE]
    ELSE IF op.refCount = 1 /\ op.fut # "released"
           THEN [op EXCEPT !.refCount = 0, !.fut = "released",
                           !.destroys = @ + 1]
           ELSE [op EXCEPT !.refCount = @ - 1]

\* getFuture(): the native future the callback holds, null once released.
GetFuture(op) == IF op.fut = "released" THEN "null" ELSE "future"

\* futureToJS(f, cb, decode): wrap the future and register for its completion.
FutureToJS(future, decode) == Start(NewNodeCallback(future, decode))

\* ------------------------------------------------------------ Transaction
GetTransactionFromArgs(t) == txns[t].tr

\* Transaction::NewInstance(ptr): the Database collaborator's path.  The
\* constructor runs Transaction::New, then the native pointer is stored.
TransactionNewInstance(t) ==
  /\ txns[t].wrapper = "none"
  /\ txns' = [txns EXCEPT ![t].wrapper = "live", ![t].tr = "valid"]
  /\ UNCHANGED <<ops, nOps, badPtrUse>>
  /\ UNCHANGED <<dispVars, dataVars, netVars>>

\* Transaction::New called by the host through the constructor function:
\* Transaction::Transaction() leaves tr as it is.
TransactionNew(t) ==
  /\ txns[t].wrapper = "none"
  /\ txns' = [txns EXCEPT ![t].wrapper = "live"]
  /\ UNCHANGED <<ops, nOps, badPtrUse>>
  /\ UNCHANGED <<dispVars, dataVars, netVars>>

\* Transaction::~Transaction, run when the collector reclaims the wrapper.
TransactionDestroy(t) ==
  /\ txns[t].wrapper = "live"
  /\ IF GetTransactionFromArgs(t) = "valid"
       THEN /\ txns' = [txns EXCEPT ![t].wrapper = "reclaimed",
                                    ![t].tr = "destroyed",
                                    ![t].destroys = @ + 1]
            /\ UNCHANGED badPtrUse
       ELSE /\ txns' = [txns EXCEPT ![t].wrapper = "reclaimed"]
            /\ badPtrUse' = TRUE
  /\ UNCHANGED <<ops, nOps>>
  /\ UNCHANGED <<dispVars, dataVars, netVars>>

\* Transaction::Cancel
TransactionCancel(t) ==
  /\ txns[t].wrapper = "live"
  /\ IF GetTransactionFromArgs(t) = "valid"
       THEN /\ txns' = [txns EXCEPT ![t].cancelled = TRUE]
            /\ UNCHANGED badPtrUse
       ELSE /\ badPtrUse' = TRUE
            /\ UNCHANGED txns
  /\ UNCHANGED <<ops, nOps>>
  /\ UNCHANGED <<dispVars, dataVars, netVars>>

\* The shape shared by the future-returning verbs: one native call on the
\* transaction pointer, its future handed to futureToJS with the verb's decode.
IssueAsync(t, verb, decode) ==
  /\ txns[t].wrapper = "live"
  /\ nOps < MaxOps
  /\ IF GetTransactionFromArgs(t) = "valid"
       THEN /\ ops' = [ops EXCEPT ![nOps + 1] =
                         FutureToJS(NewFuture(t, verb), decode)]
            /\ nOps' = nOps + 1
            /\ UNCHANGED badPtrUse
       ELSE /\ badPtrUse' = TRUE
            /\ UNCHANGED <<ops, nOps>>
  /\ UNCHANGED txns
  /\ UNCHANGED <<dispVars, dataVars, netVars>>

TransactionCommit(t) == IssueAsync(t, "commit", "ignoreResult")

TransactionOnError(t) == IssueAsync(t, "onError", "ignoreResult")

TransactionGet(t) == IssueAsync(t, "get", "getValue")

TransactionGetKey(t) == IssueAsync(t, "getKey", "getKey")

TransactionGetRange(t) == IssueAsync(t, "getRange", "getKeyValueList")

TransactionGetReadVersion(t) == IssueAsync(t, "getReadVersion", "getVersion")

TransactionGetAddressesForKey(t) ==
  IssueAsync(t, "getAddressesForKey", "getStringArray")

\* ------------------------------------------------------------------ Watch
\* slip: the handle stores the callback without taking a reference
WatchNewInstance_NoAddRef(callback) ==
  [callback EXCEPT !.watch = "live"]

\* Watch::NewInstance(callback): the handle stores the callback and takes
\* its own reference on it.
WatchNewInstance(callback) ==
  AddRef([callback EXCEPT !.watch = "live"])

\* slip: the callback is started before the Watch handle took its reference
WatchCallback_StartsFirst(t) ==
  WatchNewInstance(Start(NewNodeCallback(NewFuture(t, "watch"), "extractValue")))

\* slip: the callback is never started
WatchCallback_NoStart(t) ==
  WatchNewInstance(NewNodeCallback(NewFuture(t, "watch"), "extractValue"))

\* The callback object Transaction::Watch builds, hands to the Watch handle
\* and then starts.
WatchCallback(t) ==
  Start(WatchNewInstance(NewNodeCallback(NewFuture(t, "watch"), "extractValue")))

\* Transaction::Watch
TransactionWatch(t) ==
  /\ txns[t].wrapper = "live"
  /\ nOps < MaxOps
  /\ IF GetTransactionFromArgs(t) = "valid"
       THEN /\ ops' = [ops EXCEPT ![nOps + 1] = WatchCallback(t)]
            /\ nOps' = nOps + 1
            /\ UNCHANGED badPtrUse
       ELSE /\ badPtrUse' = TRUE
            /\ UNCHANGED <<ops, nOps>>
  /\ UNCHANGED txns
  /\ UNCHANGED <<dispVars, dataVars, netVars>>

\* slip: cancel() also calls the listener itself, with a canceled error
WatchCancelBody_CallsListener(op) ==
  [(IF GetFuture(op) # "null" THEN NativeCancel(op) ELSE op)
     EXCEPT !.contCount = @ + 1,
            !.result = [err |-> OperationCancelled, value |-> Undefined]]

\* slip: the future is canceled without asking whether the callback holds one
WatchCancelBody_NoGuard(op) ==
  NativeCancel(op)

\* Body of Watch::Cancel on the callback the handle holds.
WatchCancelBody(op) ==
  IF GetFuture(op) # "null" THEN NativeCancel(op) ELSE op

\* Watch::Cancel, called by the host on a handle it still holds.
WatchCancel(o) ==
  /\ ops[o].watch = "live"
  /\ ops[o].cancelCalls < MaxCancels
  /\ ops' = [ops EXCEPT ![o] =
               [WatchCancelBody(ops[o]) EXCEPT !.cancelCalls = @ + 1]]
  /\ UNCHANGED <<txns, nOps, badPtrUse>>
  /\ UNCHANGED <<dispVars, dataVars, netVars>>

\* slip: the reference is dropped twice
WatchDestroyBody_DoubleDelRef(op) ==
  DelRef(DelRef(IF GetFuture(op) # "null" THEN NativeCancel(op) ELSE op))

\* slip: the reference is never dropped
WatchDestroyBody_NoDelRef(op) ==
  IF GetFuture(op) # "null" THEN NativeCancel(op) ELSE op

\* Body of Watch::~Watch.
WatchDestroyBody(op) ==
  DelRef(IF GetFuture(op) # "null" THEN NativeCancel(op) ELSE op)

\* Watch::~Watch, run when the collector reclaims a handle the host dropped.
WatchDestroy(o) ==
  /\ ops[o].watch = "live"
  /\ ops' = [ops EXCEPT ![o] =
               [WatchDestroyBody(ops[o]) EXCEPT !.watch = "discarded"]]
  /\ UNCHANGED <<txns, nOps, badPtrUse>>
  /\ UNCHANGED <<dispVars, dataVars, netVars>>

\* ------------------------------------------------- completion, foreign thread
\* The native client makes the future ready and, on its own thread, invokes
\* the registered callback, which only posts the hand-off to the host loop.
NativeComplete(o) ==
  /\ ops[o].fut = "pending"
  /\ \E e \in Outcomes(ops[o]) :
       ops' = [ops EXCEPT ![o].fut = "ready", ![o].err = e,
                          ![o].queued = IF ops[o].started THEN 1 ELSE 0]
  /\ UNCHANGED <<txns, nOps, badPtrUse>>
  /\ UNCHANGED <<dispVars, dataVars, netVars>>

\* --------------------------------------------------- completion, host thread
\* What the host-side callback does with a pending operation: decode, run the
\* continuation, release the native future, drop the keep-alive reference.
Deliver(op, payload) ==
  IF op.refCount <= 0 \/ op.fut # "ready"
    THEN [op EXCEPT !.queued = @ - 1, !.fault = TRUE]
    ELSE DelRef([op EXCEPT !.queued = @ - 1,
                           !.result = Decode(op.decode,
                                             [err |-> op.err, payload |-> payload]),
                           !.contCount = @ + 1,
                           !.fut = "released",
                           !.destroys = @ + 1])

\* Deliver as run by a thread: where decode and the continuation ran is
\* remembered in decodedOn.
DeliverOn(thread, op, payload) ==
  LET after == Deliver(op, payload)
  IN IF after.contCount > op.contCount
       THEN [after EXCEPT !.decodedOn = thread]
       ELSE after

\* slip: the completion callback does not hand off; the thread of the
\* native client runs decode and the continuation itself
HostCallback_OnForeignThread(o) ==
  /\ ops[o].queued > 0
  /\ \E p \in Payloads(ops[o].decode) :
       ops' = [ops EXCEPT ![o] = DeliverOn("foreign", ops[o], p)]
  /\ UNCHANGED <<txns, nOps, badPtrUse>>
  /\ UNCHANGED <<dispVars, dataVars, netVars>>

\* The hand-off posted by the completion callback runs on the host loop.
HostCallback(o) ==
  /\ ops[o].queued > 0
  /\ \E p \in Payloads(ops[o].decode) :
       ops' = [ops EXCEPT ![o] = DeliverOn("host", ops[o], p)]
  /\ UNCHANGED <<txns, nOps, badPtrUse>>
  /\ UNCHANGED <<dispVars, dataVars, netVars>>

\* ------------------------------------------------- dispatcher, call by call
\* The prototype methods Transaction::Init installs (setOption, whose body is
\* in another translation unit, is left out).
Registered ==
  {"commit", "reset", "onError", "get", "getRange", "getKey", "watch", "set",
   "clear", "clearRange", "addReadConflictRange", "addWriteConflictRange",
   "getReadVersion", "setReadVersion", "getCommittedVersion", "cancel",
   "getAddressesForKey"}

\* What each handler does: the native entry point it calls, the decode it
\* hands to the bridge ("none" for a handler that returns no future) and the
\* number of arguments it wraps in StringParams.
Handler(verb) ==
  CASE verb = "commit" ->
         [native |-> "fdb_transaction_commit", decode |-> "ignoreResult", params |-> 0]
    [] verb = "reset" ->
         [native |-> "fdb_transaction_reset", decode |-> "none", params |-> 0]
    [] verb = "cancel" ->
         [native |-> "fdb_transaction_cancel", decode |-> "none", params |-> 0]
    [] verb = "onError" ->
         [native |-> "fdb_transaction_on_error", decode |-> "ignoreResult", params |-> 0]
    [] verb = "get" ->
         [native |-> "fdb_transaction_get", decode |-> "getValue", params |-> 1]
    [] verb = "getKey" ->
         [native |-> "fdb_transaction_get_key", decode |-> "getKey", params |-> 1]
    [] verb = "set" ->
         [native |-> "fdb_transaction_set", decode |-> "none", params |-> 2]
    [] verb = "clear" ->
         [native |-> "fdb_transaction_clear", decode |-> "none", params |-> 1]
    [] verb = "atomicOp" ->
         [native |-> "fdb_transaction_atomic_op", decode |-> "none", params |-> 2]
    [] verb = "getRange" ->
         [native |-> "fdb_transaction_get_range", decode |-> "getKeyValueList", params |-> 2]
    [] verb = "clearRange" ->
         [native |-> "fdb_transaction_clear_range", decode |-> "none", params |-> 2]
    [] verb = "setReadVersion" ->
         [native |-> "fdb_transaction_set_read_version", decode |-> "none", params |-> 0]
    [] verb = "getReadVersion" ->
         [native |-> "fdb_transaction_get_read_version", decode |-> "getVersion", params |-> 0]
    [] verb = "getCommittedVersion" ->
         [native |-> "fdb_transaction_get_committed_version", decode |-> "none", params |-> 0]
    [] verb = "getVersionStamp" ->
         [native |-> "fdb_transaction_get_read_version", decode |-> "getKey", params |-> 0]
    [] verb = "getAddressesForKey" ->
         [native |-> "fdb_transaction_get_addresses_for_key", decode |-> "getStringArray", params |-> 1]
    [] verb = "addReadConflictRange" ->
         [native |-> "fdb_transaction_add_conflict_range", decode |-> "none", params |-> 2]
    [] verb = "addWriteConflictRange" ->
         [native |-> "fdb_transaction_add_conflict_range", decode |-> "none", params |-> 2]
    [] verb = "watch" ->
         [native |-> "fdb_transaction_watch", decode |-> "extractValue", params |-> 1]

\* Handlers that return a future (or, for watch, a handle on one).
AsyncVerbs ==
  {"commit", "onError", "get", "getKey", "getRange", "getReadVersion",
   "getAddressesForKey", "watch"}

\* Handlers around a native call of type void.
VoidVerbs == {"set", "clear", "clearRange", "setReadVersion"}

ConflictRangeVerbs == {"addReadConflictRange", "addWriteConflictRange"}

\* Method names an application may try that Transaction::Init never installed.
UnregisteredVerbs == {"atomicOp", "getVersionStamp"}

\* What the host passes where a key is expected.
GoodShapes == {"string", "buffer"}
Shapes == GoodShapes \cup {"undefined"}
ShapesOf(verb) == IF Handler(verb).params > 0 THEN Shapes ELSE {"none"}

\* StringParams(keyVal): a string is copied, anything else is taken for a
\* Buffer without a test.  For a value that is no Buffer the reads through
\* Buffer::Data / Buffer::Length are undefined: the process faults, or the
\* constructor returns a view of whatever was there.
StringParamsOutcomes(shape) ==
  IF shape \in GoodShapes \cup {"none"} THEN {"view"} ELSE {"fault", "garbage"}

\* A string and a Buffer the host may pass for each shape.
ShapeValue(shape) == IF shape = "string" THEN JsString(<<65>>) ELSE Buffer(<<1>>)

\* The StringParams object of one argument as the handler's scope sees it:
\* whether it owns str, how often str was deleted, how often the native
\* client read through it, and whether it was read after it was deleted.
\* An argument that is neither string nor Buffer takes the else branch.
Marshal(shape) ==
  [shape |-> shape,
   owned |-> IF shape \in GoodShapes THEN StringParams(ShapeValue(shape)).owned
                                     ELSE FALSE,
   frees |-> 0, reads |-> 0, readFreed |-> FALSE]

\* The native call reads (str, len) while it runs.
NativeRead(p) ==
  [p EXCEPT !.reads = @ + 1, !.readFreed = @ \/ p.frees > 0]

\* slip: the destructor deletes str whether owned or not
StringParamsDestroy_Always(p) == [p EXCEPT !.frees = @ + 1]

\* ~StringParams(): if (owned) delete[] str.
StringParamsDestroy(p) == IF p.owned THEN [p EXCEPT !.frees = @ + 1] ELSE p

\* The life of a handler's StringParams locals: constructed, handed to the one
\* native call, destroyed when the handler's block is left (by falling off
\* its end, also after Nan::ThrowError, which only schedules the exception).
MarshalingScope(shapes) ==
  [i \in 1..Len(shapes) |-> StringParamsDestroy(NativeRead(Marshal(shapes[i])))]

\* The shapes of the StringParams arguments of a call: the first as given,
\* a second one (a value, an operand, the end of a range) a Buffer.
ParamShapes(verb, shape) ==
  IF Handler(verb).params = 0 THEN {<<>>}
  ELSE IF Handler(verb).params = 1 THEN {<<shape>>}
  ELSE {<<shape, "buffer">>}

\* A host call that reached its handler.
NewCall(verb, shape) ==
  [NoCall EXCEPT !.verb = verb, !.shape = shape, !.phase = disp.phase,
                 !.callable = TRUE]

\* The process died inside the handler: nothing was returned or thrown.
Faulted(call) ==
  [disp EXCEPT !.nCalls = @ + 1, !.crashed = TRUE,
               !.last = [call EXCEPT !.fault = TRUE]]

\* slip: the native call is made a second time
Forwarded_Retries(call) ==
  [disp EXCEPT !.nCalls = @ + 1,
               !.nativeLog = @ \o <<disp.nCalls + 1, disp.nCalls + 1>>,
               !.last = call]

\* The handler entered the native client once, for host call number
\* disp.nCalls + 1.
Forwarded(call) ==
  [disp EXCEPT !.nCalls = @ + 1,
               !.nativeLog = Append(@, disp.nCalls + 1),
               !.last = call]

\* get, getKey, getRange, getReadVersion, getAddressesForKey, commit,
\* onError, watch: marshal, one native call, its future to the bridge.
CallAsync(verb, shape) ==
  /\ verb \in AsyncVerbs
  /\ ~disp.crashed
  /\ disp.nCalls < MaxCalls
  /\ \E m \in StringParamsOutcomes(shape), shapes \in ParamShapes(verb, shape) :
       LET h == Handler(verb)
           call == [NewCall(verb, shape) EXCEPT
                      !.params = MarshalingScope(shapes),
                      !.native = h.native, !.decode = h.decode,
                      !.ret = IF verb = "watch" THEN "watch" ELSE "promise",
                      !.deferred = TRUE]
       IN disp' = IF m = "fault"
                  THEN Faulted(NewCall(verb, shape))
                  ELSE [Forwarded(call) EXCEPT
                          !.pending = Append(@, [call |-> disp.nCalls + 1,
                                                 verb |-> verb,
                                                 decode |-> h.decode])]
  /\ UNCHANGED <<bridgeVars, dataVars, netVars>>

\* set, clear, clearRange, setReadVersion: marshal, one native call of type
\* void, nothing returned.
CallVoid(verb, shape) ==
  /\ verb \in VoidVerbs
  /\ ~disp.crashed
  /\ disp.nCalls < MaxCalls
  /\ \E m \in StringParamsOutcomes(shape), shapes \in ParamShapes(verb, shape) :
       LET call == [NewCall(verb, shape) EXCEPT
                      !.params = MarshalingScope(shapes),
                      !.native = Handler(verb).native, !.ret = "undefined"]
       IN disp' = IF m = "fault"
                  THEN Faulted(NewCall(verb, shape))
                  ELSE Forwarded(call)
  /\ UNCHANGED <<bridgeVars, dataVars, netVars>>

\* slip: the error code of the native call is dropped
AddConflictRange_IgnoresError(call, errorCode) ==
  [call EXCEPT !.native = Handler(call.verb).native,
               !.nativeErr = errorCode, !.ret = "undefined"]

\* Transaction::AddConflictRange after marshaling: the native call, then a
\* throw when its code is not zero.
AddConflictRange(call, errorCode) ==
  IF errorCode # NoError
  THEN [call EXCEPT !.native = Handler(call.verb).native,
                    !.nativeErr = errorCode,
                    !.threw = "FdbError", !.threwCode = errorCode]
  ELSE [call EXCEPT !.native = Handler(call.verb).native,
                    !.nativeErr = errorCode, !.ret = "undefined"]

CallAddConflictRange(verb, shape) ==
  /\ verb \in ConflictRangeVerbs
  /\ ~disp.crashed
  /\ disp.nCalls < MaxCalls
  /\ \E m \in StringParamsOutcomes(shape), errorCode \in {NoError, StoreError},
        shapes \in ParamShapes(verb, shape) :
       disp' = IF m = "fault"
               THEN Faulted(NewCall(verb, shape))
               ELSE Forwarded(AddConflictRange(
                                [NewCall(verb, shape) EXCEPT
                                   !.params = MarshalingScope(shapes)],
                                errorCode))
  /\ UNCHANGED <<bridgeVars, dataVars, netVars>>

\* Transaction::GetCommittedVersion: throws on a non-zero code and returns,
\* else returns the version as a number.
GetCommittedVersion(call, errorCode) ==
  IF errorCode # NoError
  THEN [call EXCEPT !.native = Handler("getCommittedVersion").native,
                    !.nativeErr = errorCode,
                    !.threw = "FdbError", !.threwCode = errorCode]
  ELSE [call EXCEPT !.native = Handler("getCommittedVersion").native,
                    !.nativeErr = errorCode, !.ret = "number"]

CallGetCommittedVersion ==
  /\ ~disp.crashed
  /\ disp.nCalls < MaxCalls
  /\ \E errorCode \in {NoError, StoreError} :
       disp' = Forwarded(GetCommittedVersion(NewCall("getCommittedVersion", "none"),
                                             errorCode))
  /\ UNCHANGED <<bridgeVars, dataVars, netVars>>

\* Transaction::Reset: fdb_transaction_reset, the transaction starts afresh.
CallReset ==
  /\ ~disp.crashed
  /\ disp.nCalls < MaxCalls
  /\ disp' = [Forwarded([NewCall("reset", "none") EXCEPT
                           !.native = Handler("reset").native,
                           !.ret = "undefined"])
               EXCEPT !.phase = "Active"]
  /\ UNCHANGED <<bridgeVars, dataVars, netVars>>

\* Transaction::Cancel: fdb_transaction_cancel.
CallCancel ==
  /\ ~disp.crashed
  /\ disp.nCalls < MaxCalls
  /\ disp' = [Forwarded([NewCall("cancel", "none") EXCEPT
                           !.native = Handler("cancel").native,
                           !.ret = "undefined"])
               EXCEPT !.phase = "Canceled"]
  /\ UNCHANGED <<bridgeVars, dataVars, netVars>>

\* tn.atomicOp(...), tn.getVersionStamp(...): the prototype has no such
\* property, so the host raises a TypeError and no handler runs.
CallUnregistered(verb) ==
  /\ verb \in UnregisteredVerbs
  /\ ~disp.crashed
  /\ disp.nCalls < MaxCalls
  /\ disp' = [disp EXCEPT !.nCalls = @ + 1,
                          !.last = [NewCall(verb, "none") EXCEPT
                                      !.callable = FALSE, !.threw = "TypeError"]]
  /\ UNCHANGED <<bridgeVars, dataVars, netVars>>

\* The codes a future of this transaction may complete with.
SettleCodes ==
  {NoError, StoreError} \cup
    (IF disp.phase = "Canceled" THEN {TransactionCancelled} ELSE {})

\* The phase the transaction is in once the future of verb completed with err.
PhaseAfter(verb, err) ==
  IF err # NoError \/ disp.phase = "Canceled" THEN disp.phase
  ELSE IF verb = "commit" THEN "Committed"
  ELSE IF verb = "onError" THEN "Active"
  ELSE disp.phase

RemoveAt(seq, i) == SubSeq(seq, 1, i - 1) \o SubSeq(seq, i + 1, Len(seq))

\* The i-th pending future completes and the bridge hands the decoded result
\* (or the error) to its continuation.
Settle(i) ==
  /\ ~disp.crashed
  /\ i \in 1..Len(disp.pending)
  /\ LET op == disp.pending[i] IN
       \E err \in SettleCodes, payload \in Payloads(op.decode) :
         disp' = [disp EXCEPT
                    !.pending = RemoveAt(@, i),
                    !.settled = Append(@, op.call),
                    !.phase = PhaseAfter(op.verb, err),
                    !.lastSettle =
                      [call |-> op.call, verb |-> op.verb, nativeErr |-> err,
                       result |-> Decode(op.decode,
                                         [err |-> err, payload |-> payload])]]
  /\ UNCHANGED <<bridgeVars, dataVars, netVars>>

DispNext ==
  \/ \E verb \in AsyncVerbs : \E shape \in ShapesOf(verb) : CallAsync(verb, shape)
  \/ \E verb \in VoidVerbs : \E shape \in ShapesOf(verb) : CallVoid(verb, shape)
  \/ \E verb \in ConflictRangeVerbs : \E shape \in ShapesOf(verb) :
       CallAddConflictRange(verb, shape)
  \/ CallGetCommittedVersion
  \/ CallReset
  \/ CallCancel
  \/ \E verb \in UnregisteredVerbs : CallUnregistered(verb)
  \/ \E i \in 1..MaxCalls : Settle(i)

DispSpec == Init /\ [][DispNext]_<<bridgeVars, dispVars, dataVars, netVars>>

\* ------------------------------------------------------ data path, one handle
\* Transaction::Set: both arguments through StringParams, then
\* fdb_transaction_set.
DataSet(k, v) ==
  /\ data.inflight = NoFlight
  /\ ~data.scan.active
  /\ LET key == StringParams(k)
         val == StringParams(v)
     IN data' = [data EXCEPT
                   !.store = NativeSet(@, NativeBytes(key.str, key.len),
                                       NativeBytes(val.str, val.len)),
                   !.written[k] = v,
                   !.lastGet = NoGet,
                   !.scan = NoScan]
  /\ UNCHANGED <<bridgeVars, dispVars, netVars>>

\* Transaction::Clear: the key through StringParams, then
\* fdb_transaction_clear.
DataClear(k) ==
  /\ data.inflight = NoFlight
  /\ ~data.scan.active
  /\ data.written[k] # Never
  /\ LET key == StringParams(k)
     IN data' = [data EXCEPT
                   !.store = NativeClear(@, NativeBytes(key.str, key.len)),
                   !.written[k] = Cleared,
                   !.lastGet = NoGet,
                   !.scan = NoScan]
  /\ UNCHANGED <<bridgeVars, dispVars, netVars>>

\* Transaction::Get: the key through StringParams, fdb_transaction_get, the
\* future to the bridge with getValue.
DataGet(k) ==
  /\ data.inflight = NoFlight
  /\ LET key == StringParams(k) IN
       \E err \in {NoError, StoreError} :
         data' = [data EXCEPT
                    !.inflight =
                      [verb |-> "get", decode |-> "getValue", key |-> k,
                       expect |-> data.written[k],
                       future |-> [err |-> err,
                                   payload |-> NativeGet(data.store,
                                                NativeBytes(key.str, key.len))]]]
  /\ UNCHANGED <<bridgeVars, dispVars, netVars>>

\* The key of the selector the scanning caller passes as start: none at the
\* beginning of the range, else the key of the last pair it was given (first
\* greater than).
ScanStart(scan) ==
  IF scan.active /\ Len(scan.delivered) > 0
    THEN scan.delivered[Len(scan.delivered)].key
    ELSE Undefined

\* Transaction::GetRange with limit 0 and target_bytes 0: the selectors'
\* keys through StringParams, fdb_transaction_get_range, the future to the
\* bridge with getKeyValueList.  A call outside a scan starts one.
DataGetRange ==
  /\ data.inflight = NoFlight
  /\ data.scan.active => data.scan.more
  /\ LET scan == IF data.scan.active
                   THEN data.scan
                   ELSE [NoScan EXCEPT
                           !.active = TRUE,
                           !.n = Len(PairsAfter(data.store, FromStart))]
         start == ScanStart(scan)
         after == IF start = Undefined
                    THEN FromStart
                    ELSE After(NativeBytes(StringParams(start).str,
                                           StringParams(start).len))
         left == Len(PairsAfter(data.store, after))
     IN \E size \in (IF left = 0 THEN {0} ELSE 1..left) :
          data' = [data EXCEPT
                     !.scan = [scan EXCEPT !.iteration = @ + 1],
                     !.inflight =
                       [verb |-> "getRange", decode |-> "getKeyValueList",
                        future |-> [err |-> NoError,
                                    payload |-> NativeGetRange(data.store,
                                                               after, size)]]]
  /\ UNCHANGED <<bridgeVars, dispVars, netVars>>

\* The future in flight completes and the bridge hands its decoded result to
\* the continuation.
DataSettle ==
  /\ data.inflight # NoFlight
  /\ LET op == data.inflight
         result == Decode(op.decode, op.future)
     IN data' =
          IF op.verb = "get"
          THEN [data EXCEPT
                  !.inflight = NoFlight,
                  !.lastGet = [key |-> op.key, expect |-> op.expect,
                               result |-> result],
                  !.gotEmpty = @ \/ result.value = Buffer(<<>>)]
          ELSE [data EXCEPT
                  !.inflight = NoFlight,
                  !.scan = [@ EXCEPT
                              !.active = result.value.more,
                              !.returned = @ \o op.future.payload.kv,
                              !.delivered = @ \o result.value.values.items,
                              !.storeMore = op.future.payload.more,
                              !.more = result.value.more]]
  /\ UNCHANGED <<bridgeVars, dispVars, netVars>>

DataNext ==
  \/ \E k \in HostKeys, v \in HostValues : DataSet(k, v)
  \/ \E k \in HostKeys : DataClear(k)
  \/ \E k \in HostKeys : DataGet(k)
  \/ DataGetRange
  \/ DataSettle

DataSpec == Init /\ [][DataNext]_<<bridgeVars, dispVars, dataVars, netVars>>

\* ------------------------------------------------------------ lib/index.ts
\* The API version the application selects, e.g. setAPIVersion(510).
ApiVersion == 510

\* setAPIVersion: apiVersion.set records the version; get() is non-null after.
SetAPIVersion ==
  /\ ~net.exited
  /\ net' = [net EXCEPT !.apiVersion = JsNumber(ApiVersion),
                        !.last = [call |-> "setAPIVersion", threw |-> FALSE]]
  /\ UNCHANGED <<bridgeVars, dispVars, dataVars>>

\* nativeMod.setNetworkOption, once per option handed to configNetwork.
SetNetworkOptions(n, count) ==
  [n EXCEPT !.optionsSet = @ + count,
            !.optionsSetAfterStart = IF n.networkStarts > 0 THEN @ + count ELSE @]

init_MarksBeforeVersionCheck(n) ==
  IF n.initCalled
  THEN [net |-> n, threw |-> n.apiVersion = Null]
  ELSE IF n.apiVersion = Null
       THEN [net |-> [n EXCEPT !.initCalled = TRUE], threw |-> TRUE]
       ELSE [net |-> [n EXCEPT !.initCalled = TRUE,
                               !.networkStarts = @ + 1,
                               !.exitHandlers = @ + 1],
             threw |-> FALSE]

\* init(): throws when no API version was chosen, returns when it already
\* ran, else marks itself called, starts the network thread and registers
\* the exit handler.  The result is the new module state and whether init
\* threw.
init(n) ==
  IF n.apiVersion = Null
  THEN [net |-> n, threw |-> TRUE]
  ELSE IF n.initCalled
       THEN [net |-> n, threw |-> FALSE]
       ELSE [net |-> [n EXCEPT !.initCalled = TRUE,
                               !.networkStarts = @ + 1,
                               !.exitHandlers = @ + 1],
             threw |-> FALSE]

ConfigNetwork_NoGuard(count) ==
  /\ ~net.exited
  /\ net.optionsSet + count <= MaxNetOptions
  /\ net' = [SetNetworkOptions(net, count) EXCEPT
               !.last = [call |-> "configNetwork", threw |-> FALSE]]
  /\ UNCHANGED <<bridgeVars, dispVars, dataVars>>

\* configNetwork(netOpts): refuses once init() ran, else sets every option.
ConfigNetwork(count) ==
  /\ ~net.exited
  /\ net.optionsSet + count <= MaxNetOptions
  /\ net' = IF net.initCalled
            THEN [net EXCEPT !.last = [call |-> "configNetwork", threw |-> TRUE]]
            ELSE [SetNetworkOptions(net, count) EXCEPT
                    !.last = [call |-> "configNetwork", threw |-> FALSE]]
  /\ UNCHANGED <<bridgeVars, dispVars, dataVars>>

\* open(clusterFile, dbOpts): init(), then nativeMod.createDatabase.
open(n, call) ==
  LET i == init(n) IN
    IF i.threw
    THEN [i.net EXCEPT !.openThrew = TRUE,
                       !.last = [call |-> call, threw |-> TRUE]]
    ELSE [i.net EXCEPT !.databases = @ + 1,
                       !.dbCreatedUnstarted = @ \/ i.net.networkStarts = 0,
                       !.last = [call |-> call, threw |-> FALSE]]

OpenCalls == {"open", "openSync", "openDatabase", "openDatabaseSync"}

Open ==
  /\ ~net.exited
  /\ net.databases < MaxDatabases
  /\ net' = open(net, "open")
  /\ UNCHANGED <<bridgeVars, dispVars, dataVars>>

\* openSync = deprecate(open, ...): the same function behind a warning.
OpenSync ==
  /\ ~net.exited
  /\ net.databases < MaxDatabases
  /\ net' = open(net, "openSync")
  /\ UNCHANGED <<bridgeVars, dispVars, dataVars>>

\* createCluster(Sync)().openDatabase: Promise.resolve(open(dbName, opts)).
OpenDatabase ==
  /\ ~net.exited
  /\ net.databases < MaxDatabases
  /\ net' = open(net, "openDatabase")
  /\ UNCHANGED <<bridgeVars, dispVars, dataVars>>

\* createCluster(Sync)().openDatabaseSync: open(dbName, opts).
OpenDatabaseSync ==
  /\ ~net.exited
  /\ net.databases < MaxDatabases
  /\ net' = open(net, "openDatabaseSync")
  /\ UNCHANGED <<bridgeVars, dispVars, dataVars>>

\* The process emits 'exit': every handler init() registered runs
\* nativeMod.stopNetwork().
ProcessExit ==
  /\ ~net.exited
  /\ net' = [net EXCEPT !.exited = TRUE, !.networkStops = @ + net.exitHandlers]
  /\ UNCHANGED <<bridgeVars, dispVars, dataVars>>

NetNext ==
  \/ SetAPIVersion
  \/ \E count \in 1..MaxNetOptions : ConfigNetwork(count)
  \/ Open
  \/ OpenSync
  \/ OpenDatabase
  \/ OpenDatabaseSync
  \/ ProcessExit

allVars == <<bridgeVars, dispVars, dataVars, netVars>>

NetSpec == Init /\ [][NetNext]_allVars

\* ---------------------------------------------------------------- behaviours
Next ==
  \/ \E t \in Txns : TransactionNewInstance(t)
  \/ \E t \in Txns : TransactionNew(t)
  \/ \E t \in Txns : TransactionDestroy(t)
  \/ \E t \in Txns : TransactionCancel(t)
  \/ \E t \in Txns : TransactionCommit(t)
  \/ \E t \in Txns : TransactionOnError(t)
  \/ \E t \in Txns : TransactionGet(t)
  \/ \E t \in Txns : TransactionGetKey(t)
  \/ \E t \in Txns : TransactionGetRange(t)
  \/ \E t \in Txns : TransactionGetReadVersion(t)
  \/ \E t \in Txns : TransactionGetAddressesForKey(t)
  \/ \E t \in Txns : TransactionWatch(t)
  \/ \E o \in Ops : WatchCancel(o)
  \/ \E o \in Ops : WatchDestroy(o)
  \/ \E o \in Ops : NativeComplete(o)
  \/ \E o \in Ops : HostCallback(o)

Spec == Init /\ [][Next]_vars

\* The host loop runs every posted hand-off, and the native client completes
\* every future it was asked to cancel.
CancelRequested(o) ==
  /\ ops[o].fut = "pending"
  /\ ops[o].cancelReq \/ txns[ops[o].txn].cancelled

LiveSpec ==
  /\ Spec
  /\ \A o \in Ops : WF_vars(HostCallback(o))
  /\ \A o \in Ops : WF_vars(CancelRequested(o) /\ NativeComplete(o))

\* ======================================================================
\* Properties
\* ======================================================================

\* C1: every pending operation's continuation is invoked at most once in every
\* reachable state, and exactly once (with a decoded result) by the time its
\* native future has been released, whatever the interleaving of native
\* completion, Watch.cancel(), Transaction.cancel() and discarding the handle.
C1_ContinuationExactlyOnce ==
  \A o \in Ops :
    /\ ops[o].contCount <= 1
    /\ ops[o].fut = "released" => ops[o].contCount = 1
    /\ ops[o].contCount = 1 => ops[o].result # NoResult

\* a watch that was canceled, whose transaction was canceled and whose handle
\* was discarded, and whose continuation ran once
C1_Witness ==
  \E o \in Ops :
    /\ ops[o].verb = "watch"
    /\ ops[o].cancelCalls > 0
    /\ txns[ops[o].txn].cancelled
    /\ ops[o].watch = "discarded"
    /\ ops[o].contCount = 1

\* C2: under fairness of the host loop and of the native client, every pending
\* operation whose native future is ready, or was asked to cancel (by the watch
\* or through its transaction), eventually has its continuation run.
C2_NoContinuationLost ==
  \A o \in Ops :
    (ops[o].fut = "ready" \/ CancelRequested(o)) ~> (ops[o].contCount = 1)

\* a normal completion that raced ahead of the cancel request was delivered
C2_Witness ==
  \E o \in Ops :
    /\ ops[o].cancelIssued
    /\ ~ops[o].cancelReq
    /\ ops[o].contCount = 1
    /\ ops[o].result.err = NoError

\* C3: a native future is never destroyed before its completion callback has
\* run: until then the pending operation keeps a reference and its future,
\* also after the Watch handle was discarded, which by then has sent the
\* future a cancel.
C3_FutureOutlivesCallback ==
  \A o \in Ops :
    /\ ops[o].destroys > 0 => ops[o].contCount > 0
    /\ (ops[o].verb # "none" /\ ops[o].contCount = 0) =>
         (ops[o].refCount >= 1 /\ ops[o].fut \in {"pending", "ready"})
    /\ (ops[o].watch = "discarded" /\ ops[o].contCount = 0) =>
         ops[o].cancelIssued
    /\ ~ops[o].fault

\* the handle was discarded in the window between the foreign-thread signal
\* and the host-side callback: the future got a cancel and is still alive
C3_Witness ==
  \E o \in Ops :
    /\ ops[o].watch = "discarded"
    /\ ops[o].cancelIssued
    /\ ~ops[o].cancelReq
    /\ ops[o].fut = "ready"
    /\ ops[o].queued = 1
    /\ ops[o].refCount = 1

\* C4: the native future of a pending operation is destroyed at most once,
\* only after decode has produced the result (success or error), and it has
\* been destroyed once the continuation has run.
C4_FutureReleasedOnce ==
  \A o \in Ops :
    /\ ops[o].destroys <= 1
    /\ ops[o].destroys = 1 => ops[o].result # NoResult
    /\ ops[o].contCount > 0 => (ops[o].destroys = 1 /\ ops[o].fut = "released")

\* the error branch: a commit that failed, its future released, nobody holding it
C4_Witness ==
  \E o \in Ops :
    /\ ops[o].verb = "commit"
    /\ ops[o].result.err = StoreError
    /\ ops[o].destroys = 1
    /\ ops[o].refCount = 0

C6_CancelOutcomes ==
  \A o \in Ops :
    /\ (ops[o].cancelCalls > 0 /\ ops[o].contCount > 0) =>
         (ops[o].result.err = NoError \/ IsCanceled(ops[o].result.err))
    /\ ~ops[o].fault

\* a canceled watch delivered the canceled-operation error
C6_Witness ==
  \E o \in Ops :
    /\ ops[o].cancelCalls > 0
    /\ ops[o].contCount = 1
    /\ ops[o].result.err = OperationCancelled

\* C7: a Watch handle holds exactly one reference from creation until it is
\* discarded (the only other one is the keep-alive reference dropped after the
\* callback ran); discarding cancels a future the callback still holds and
\* drops that one reference, so the count is never negative and the future is
\* released once the handle is discarded and the completion has run.
C7_WatchHoldsOneReference ==
  \A o \in Ops :
    ops[o].verb = "watch" =>
      /\ ops[o].refCount =
           (IF ops[o].contCount = 0 THEN 1 ELSE 0)
             + (IF ops[o].watch = "live" THEN 1 ELSE 0)
      /\ ops[o].refCount >= 0
      /\ (ops[o].watch = "discarded" /\ ~ops[o].cancelIssued) =>
           ops[o].contCount > 0
      /\ (ops[o].watch = "discarded" /\ ops[o].contCount > 0) =>
           (ops[o].fut = "released" /\ ops[o].destroys = 1)
      /\ ~ops[o].fault

\* a handle discarded while its future was still pending: canceled, delivered,
\* no reference left, future released
C7_Witness ==
  \E o \in Ops :
    /\ ops[o].watch = "discarded"
    /\ ops[o].cancelReq
    /\ ops[o].cancelCalls = 0
    /\ ops[o].contCount = 1
    /\ ops[o].refCount = 0
    /\ ops[o].destroys = 1

\* C8: the native transaction pointer is destroyed at most once, and never
\* while a pending operation derived from that transaction is outstanding.
C8_DestroyNeverWhileOutstanding ==
  \A t \in Txns :
    /\ txns[t].destroys <= 1
    /\ txns[t].tr = "destroyed" =>
         \A o \in Ops : ops[o].txn = t => ops[o].contCount > 0

\* C9: every Transaction object on which a verb or the destructor can run holds
\* a valid native pointer, and no native entry point ever gets another one.
C9_PointerAlwaysValid ==
  /\ \A t \in Txns : txns[t].wrapper = "live" => txns[t].tr = "valid"
  /\ ~badPtrUse

\* C10: a decoded result exists only for an operation whose completion was
\* delivered; it carries the native error code, and with a non-zero code the
\* value is undefined, never a decoded value.
C10_ErrorSkipsDecode ==
  \A o \in Ops :
    /\ ops[o].result # NoResult =>
         /\ ops[o].contCount = 1
         /\ ops[o].fut = "released"
         /\ ops[o].result.err = ops[o].err
    /\ ops[o].result.err # NoError => ops[o].result.value = Undefined

\* a get whose future failed: the continuation got the error and no value
C10_Witness ==
  \E o \in Ops :
    /\ ops[o].verb = "get"
    /\ ops[o].contCount = 1
    /\ ops[o].result.err = StoreError
    /\ ops[o].result.value = Undefined

\* C19: configNetwork called after an open() that succeeded throws, and no
\* network option is ever set once the network thread has been started.
C19_ConfigNetworkAfterOpenThrows ==
  /\ net.optionsSetAfterStart = 0
  /\ net.last.call = "configNetwork" /\ net.databases > 0 => net.last.threw

\* configNetwork set options before the first open, then was refused after it.
C19_Witness ==
  /\ net.last = [call |-> "configNetwork", threw |-> TRUE]
  /\ net.databases > 0
  /\ net.optionsSet > 0

\* C20: the network thread is started at most once and the exit handler is
\* registered at most once, however often open() is called.  An open() with
\* no API version throws, starts nothing, creates no database and leaves
\* initCalled false, so that every database that is ever created was created
\* with the network started exactly once.
C20_NetworkStartedOnce ==
  /\ net.networkStarts <= 1
  /\ net.exitHandlers <= 1
  /\ net.networkStops <= 1
  /\ net.apiVersion = Null =>
       /\ ~net.initCalled
       /\ net.networkStarts = 0
       /\ net.exitHandlers = 0
       /\ net.databases = 0
  /\ net.last.call \in OpenCalls /\ net.apiVersion = Null => net.last.threw
  /\ ~net.dbCreatedUnstarted
  /\ net.databases > 0 => net.networkStarts = 1 /\ net.exitHandlers = 1

\* An open() threw for want of an API version; after setAPIVersion two
\* databases were opened over one network start.
C20_Witness ==
  /\ net.openThrew
  /\ net.databases = 2
  /\ net.networkStarts = 1
  /\ net.exitHandlers = 1
  /\ net.last.call \in OpenCalls
  /\ ~net.last.threw


\* C11: a non-zero native code reaches the caller through the channel of
\* its verb.  A future-returning verb never throws at the call site and the
\* code its future completed with is the error its continuation receives; a
\* conflict-range verb or getCommittedVersion whose native call failed threw
\* that code at the call site, returned no value and left nothing pending.
SyncErrorVerbs == ConflictRangeVerbs \cup {"getCommittedVersion"}

C11_ErrorsThroughVerbChannel ==
  /\ disp.last.verb \in AsyncVerbs /\ ~disp.last.fault =>
       /\ disp.last.threw = "none"
       /\ disp.last.deferred
  /\ disp.lastSettle.call > 0 =>
       disp.lastSettle.result.err = disp.lastSettle.nativeErr
  /\ disp.last.verb \in SyncErrorVerbs /\ disp.last.nativeErr # NoError =>
       /\ disp.last.threw = "FdbError"
       /\ disp.last.threwCode = disp.last.nativeErr
       /\ disp.last.ret = "none"
       /\ ~disp.last.deferred
  /\ disp.last.verb \in SyncErrorVerbs =>
       \A i \in 1..Len(disp.pending) : disp.pending[i].call # disp.nCalls

\* A get failed through its continuation, then addReadConflictRange threw.
C11_Witness ==
  /\ disp.lastSettle.verb = "get"
  /\ disp.lastSettle.nativeErr = StoreError
  /\ disp.lastSettle.result.err = StoreError
  /\ disp.last.verb = "addReadConflictRange"
  /\ disp.last.threw = "FdbError"
  /\ disp.last.threwCode = StoreError

\* C12: a call whose key argument is neither a string nor a buffer is
\* refused with a synchronous error, and the native client is not entered.
C12_BadShapeRejected ==
  disp.last.callable /\ disp.last.shape = "undefined" =>
    /\ disp.last.threw # "none"
    /\ disp.last.native = "none"
    /\ ~disp.last.fault

\* C13: a read, write, range, conflict-range or version operation called
\* while the transaction is Committed or Canceled ends in an error, thrown
\* at the call site or carried by the pending result it returned; it does not
\* return normally.
OperationVerbs ==
  {"get", "getKey", "getRange", "getAddressesForKey", "watch", "set", "clear",
   "clearRange", "atomicOp", "addReadConflictRange", "addWriteConflictRange",
   "getReadVersion", "setReadVersion"}

C13_TerminalStateRejects ==
  /\ disp.last.verb \in OperationVerbs
  /\ disp.last.phase \in {"Committed", "Canceled"}
  /\ ~disp.last.fault
  => disp.last.threw # "none" \/ disp.last.deferred

\* C14: the native client is entered in host call order, once per host call
\* whose handler reached it; futures settle in any order.
C14_ForwardedInCallOrder ==
  /\ \A i, j \in 1..Len(disp.nativeLog) :
       i < j => disp.nativeLog[i] < disp.nativeLog[j]
  /\ \A i \in 1..Len(disp.nativeLog) : disp.nativeLog[i] \in 1..disp.nCalls
  /\ disp.last.native # "none" =>
       /\ Len(disp.nativeLog) > 0
       /\ disp.nativeLog[Len(disp.nativeLog)] = disp.nCalls
  /\ disp.last.verb # "none" /\ disp.last.native = "none" =>
       \A i \in 1..Len(disp.nativeLog) : disp.nativeLog[i] # disp.nCalls
  /\ Len(disp.pending) + Len(disp.settled) <= Len(disp.nativeLog)

\* Three calls were forwarded in order, and the future of the second settled
\* before the future of the first.
C14_Witness ==
  /\ disp.nativeLog = <<1, 2, 3>>
  /\ disp.settled = <<2, 1>>

\* C18: every verb of the public surface is a method of the handle, returns
\* what the per-verb table says and hands the bridge the decode the table
\* names.
PublicSurface ==
  {"get", "set", "clear", "clearRange", "getRange", "atomicOp", "getKey",
   "addReadConflictRange", "addWriteConflictRange", "getReadVersion",
   "setReadVersion", "getCommittedVersion", "getAddressesForKey", "commit",
   "reset", "cancel", "onError", "watch"}

PrescribedDecode(verb) ==
  CASE verb = "get" -> "getValue"
    [] verb = "getKey" -> "getKey"
    [] verb = "getRange" -> "getKeyValueList"
    [] verb = "getReadVersion" -> "getVersion"
    [] verb = "getAddressesForKey" -> "getStringArray"
    [] verb \in {"commit", "onError"} -> "ignoreResult"
    [] verb = "watch" -> "extractValue"
    [] OTHER -> "none"

WiredAsPrescribed(call) ==
  /\ call.native # "none"
  /\ call.decode = PrescribedDecode(call.verb)
  /\ call.deferred = (PrescribedDecode(call.verb) # "none")
  /\ call.verb \in {"set", "clear", "clearRange", "atomicOp", "setReadVersion",
                     "reset", "cancel"} =>
       call.ret = "undefined" /\ call.threw = "none"

C18_PublicSurfaceWired ==
  disp.last.verb \in PublicSurface =>
    /\ disp.last.callable
    /\ ~disp.last.fault => WiredAsPrescribed(disp.last)

\* What does hold: every installed method is wired as the table says.
RegisteredVerbsWired ==
  disp.last.verb \in Registered /\ ~disp.last.fault =>
    disp.last.callable /\ WiredAsPrescribed(disp.last)


\* C15: a get that succeeded delivers null exactly when its key held no
\* value (never written, or cleared), and delivers an empty Buffer when the
\* key held an empty byte sequence; null and the empty Buffer differ.
HeldNothing(expect) == expect \in {Never, Cleared}
HeldEmpty(expect) == expect \in {Buffer(<<>>), JsString(<<>>)}

C15_AbsentDistinctFromEmpty ==
  /\ Null # Buffer(<<>>)
  /\ data.lastGet.key # Undefined /\ data.lastGet.result.err = NoError =>
       /\ HeldNothing(data.lastGet.expect) => data.lastGet.result.value = Null
       /\ HeldEmpty(data.lastGet.expect) =>
            data.lastGet.result.value = Buffer(<<>>)
       /\ data.lastGet.result.value = Null => HeldNothing(data.lastGet.expect)

\* A get of a cleared key delivered null, and a get has delivered an empty
\* Buffer before.
C15_Witness ==
  /\ data.lastGet.expect = Cleared
  /\ data.lastGet.result.value = Null
  /\ data.gotEmpty

\* C16: a get that succeeded on a key last set to a Buffer v delivers a
\* Buffer with the bytes of v, the same in number and content; for a key
\* last set to a string it delivers the bytes of its UTF-8 form.
C16_RoundTrip ==
  data.lastGet.key # Undefined /\ data.lastGet.result.err = NoError =>
    /\ data.lastGet.expect.type = "buffer" =>
         /\ data.lastGet.result.value = data.lastGet.expect
         /\ Len(data.lastGet.result.value.bytes) = Len(data.lastGet.expect.bytes)
    /\ data.lastGet.expect.type = "string" =>
         data.lastGet.result.value = Buffer(WriteUtf8(data.lastGet.expect.str))

\* A value with a zero byte in front came back whole under a string key.
C16_Witness ==
  /\ data.lastGet.key = JsString(<<233>>)
  /\ data.lastGet.expect = Buffer(<<0, 1>>)
  /\ data.lastGet.result.value = Buffer(<<0, 1>>)

\* C17: the pairs delivered by getRange are the pairs the store returned, in
\* the same order and number, and the more flag delivered is the store's.
\* Once a batch of a scan was delivered, more is true while fewer than the N
\* pairs of the store were delivered, and when more is false the scan has
\* delivered all N pairs in key order.
BatchesDelivered ==
  data.scan.iteration - (IF data.inflight.verb = "getRange" THEN 1 ELSE 0)

C17_RangeDeliveredAsReturned ==
  /\ Len(data.scan.delivered) = Len(data.scan.returned)
  /\ \A i \in 1..Len(data.scan.delivered) :
       data.scan.delivered[i] =
         JsKeyValue(data.scan.returned[i].key, data.scan.returned[i].value)
  /\ data.scan.more = data.scan.storeMore
  /\ BatchesDelivered > 0 =>
       /\ Len(data.scan.delivered) < data.scan.n => data.scan.more
       /\ ~data.scan.more =>
            /\ Len(data.scan.delivered) = data.scan.n
            /\ data.scan.returned = PairsAfter(data.store, FromStart)

\* A scan over two keys took two batches and ended with more = false.
C17_Witness ==
  /\ data.scan.n = 2
  /\ data.scan.iteration = 2
  /\ data.inflight = NoFlight
  /\ Len(data.scan.delivered) = 2
  /\ ~data.scan.more


\* C21: in every call that was forwarded, an argument given as a string was
\* marshaled into an owned copy and an argument given as a Buffer into a
\* borrowed view; the owned copy was deleted exactly once when the handler
\* was left, also when the conflict-range verb threw the native error, and
\* not before the native call had read it; the borrowed view was never
\* deleted; and each was read by the one native call only.
C21_OwnedFreedOnceBorrowedNever ==
  \A i \in 1..Len(disp.last.params) :
    LET p == disp.last.params[i] IN
      /\ p.owned = (p.shape = "string")
      /\ p.owned => p.frees = 1
      /\ ~p.owned => p.frees = 0
      /\ ~p.readFreed
      /\ p.reads = 1

\* addReadConflictRange(string, Buffer) threw the native error: the copy of
\* the first argument was deleted once, the view of the second never.
C21_Witness ==
  /\ disp.last.verb = "addReadConflictRange"
  /\ disp.last.threw = "FdbError"
  /\ Len(disp.last.params) = 2
  /\ disp.last.params[1].owned /\ disp.last.params[1].frees = 1
  /\ ~disp.last.params[2].owned /\ disp.last.params[2].frees = 0


\* C22: decode and the continuation of a pending operation run on the host
\* thread only.  After the native client has signalled completion on its own
\* thread, and until the host loop runs the hand-off, no result has been
\* decoded and no continuation has run.
C22_DecodeOnHostThreadOnly ==
  \A o \in Ops :
    /\ ops[o].decodedOn \in {"none", "host"}
    /\ ops[o].contCount > 0 => ops[o].decodedOn = "host"
    /\ ops[o].result # NoResult => ops[o].decodedOn = "host"
    /\ ops[o].queued > 0 =>
         /\ ops[o].decodedOn = "none"
         /\ ops[o].result = NoResult
         /\ ops[o].contCount = 0

\* The value of a get was decoded and handed to its continuation on the host
\* thread.
C22_Witness ==
  \E o \in Ops :
    /\ ops[o].verb = "get"
    /\ ops[o].decodedOn = "host"
    /\ ops[o].contCount = 1
    /\ ops[o].result.err = NoError
    /\ ops[o].result.value # Undefined


\* C23: when the callback of a watch is started, the Watch handle already
\* holds its reference on it, next to the reference that keeps the callback
\* alive until the hand-off has run.  So while the handle lives the callback
\* is referenced, also after the future has completed and the continuation
\* has run, and neither cancel() nor the discard of the handle ever reaches a
\* freed callback.
C23_HandleReferenceBeforeStart ==
  \A o \in Ops :
    ops[o].verb = "watch" =>
      /\ ops[o].started
      /\ ops[o].refsAtStart = 2
      /\ ops[o].watch = "live" => ops[o].refCount >= 1
      /\ ops[o].watch # "none"
      /\ ~ops[o].fault

\* The watch fired and its continuation ran; cancel() was then called on the
\* handle, which still holds the only reference.
C23_Witness ==
  \E o \in Ops :
    /\ ops[o].verb = "watch"
    /\ ops[o].contCount = 1
    /\ ops[o].watch = "live"
    /\ ops[o].cancelCalls > 0
    /\ ops[o].refCount = 1
    /\ ~ops[o].fault

====
